---------------------------- MODULE Spec2Model ----------------------------
(***************************************************************************)
(* Model of pennylane/proc/tf_box.py: the TensorFlowBox adapter.           *)
(*                                                                         *)
(* A backend tensor is a record [kind, dtype, shape, vals]: kind is        *)
(* "Tensor" (tf.Tensor) or "Variable" (tf.Variable), shape is a sequence   *)
(* of dimensions and vals the elements in row-major order, each element a  *)
(* pair <<re, im>> of integers.  The result of a backend operation whose   *)
(* numerical value the adapter never inspects is the term                  *)
(* [kind |-> "Tensor", fn, operands, params].  A box is                    *)
(* [kind |-> "TensorFlowBox", data].  A raised exception is                *)
(* [kind |-> "error", origin, exc], origin being "backend" (raised inside  *)
(* a tensorflow call) or "adapter" (raised by a statement of tf_box.py).   *)
(*                                                                         *)
(* The state is one call of the adapter: pc = "idle" before the call,      *)
(* pc = "returned" once it has returned or raised; call holds the          *)
(* operation and its arguments, ret what came back.                        *)
(***************************************************************************)
EXTENDS Integers, Sequences, FiniteSets, TLC

VARIABLES pc, call, ret

vars == <<pc, call, ret>>

(***************************************************************************)
(* Bounds of the model.                                                    *)
(***************************************************************************)
\* longest list handed to _coerce_types directly
MaxLen == 2
\* highest rank of an operand of dot
MaxRank == 3

\* dimensions of the operands of dot
DotDims == {2, 3}
\* element types of the operands of dot: two of a category, one of each other
\* category, and the two types no category holds
DotDTypes == {"int32", "float16", "float64", "complex128", "bool", "uint8"}
\* shapes of the inputs of stack and concatenate
ListShapes == {<<>>, <<2>>, <<3>>, <<2, 2>>}
\* shapes of the tensors the one-argument operations are called on
SelfShapes == {<<>>, <<2>>, <<2, 3>>}
\* axis arguments: <<>> is None, <<a>> is the integer a
Axes == {<<-1>>, <<0>>, <<1>>}
\* first element of a sample tensor; element i is the cast of Base + i - 1
SampleBases == {1, 2049}

(***************************************************************************)
(* Element types.                                                          *)
(***************************************************************************)
ComplexTypes == {"complex64", "complex128"}

FloatTypes == {"float16", "float32", "float64"}

IntTypes == {"int8", "int16", "int32", "int64"}

\* element types of the backend outside the three sets _coerce_types names
OtherTypes == {"bool", "uint8"}

DTypes == ComplexTypes \cup FloatTypes \cup IntTypes \cup OtherTypes

Abs(n) == IF n < 0 THEN -n ELSE n

\* bits of an integer type, or of the significand of a floating-point type
\* (of each part of a complex type)
Bits(d) ==
    CASE d = "int8" -> 8
      [] d = "uint8" -> 8
      [] d = "int16" -> 16
      [] d = "int32" -> 32
      [] d = "int64" -> 64
      [] d = "float16" -> 11
      [] d = "float32" -> 24
      [] d = "complex64" -> 24
      [] d = "float64" -> 53
      [] d = "complex128" -> 53
      [] d = "bool" -> 1

\* two's-complement wrap of n to a signed integer of b bits; every value of
\* the model lies within the 32-bit range, where 32 and 64 bits are exact
WrapSigned(n, b) ==
    IF b >= 32 THEN n ELSE ((n + 2^(b-1)) % 2^b) - 2^(b-1)

RECURSIVE Quantum(_, _)
\* spacing of the numbers with a p-bit significand around magnitude a
Quantum(a, p) == IF a < 2^p THEN 1 ELSE 2 * Quantum(a \div 2, p)

\* n rounded to the nearest number with a p-bit significand, ties to even
RoundSig(n, p) ==
    IF p >= 31 THEN n
    ELSE LET a == Abs(n)
             q == Quantum(a, p)
             r == a % q
             down == a - r
             m == IF 2 * r < q THEN down
                  ELSE IF 2 * r > q THEN down + q
                  ELSE IF (down \div q) % 2 = 0 THEN down ELSE down + q
         IN  IF n < 0 THEN -m ELSE m

\* tf.cast of one element v = <<re, im>> to element type d
CastElem(v, d) ==
    IF d \in ComplexTypes THEN <<RoundSig(v[1], Bits(d)), RoundSig(v[2], Bits(d))>>
    ELSE IF d \in FloatTypes THEN <<RoundSig(v[1], Bits(d)), 0>>
    ELSE IF d \in IntTypes THEN <<WrapSigned(v[1], Bits(d)), 0>>
    ELSE IF d = "uint8" THEN <<v[1] % 256, 0>>
    ELSE <<IF v[1] # 0 \/ v[2] # 0 THEN 1 ELSE 0, 0>>

\* tf.cast(t, d): a tf.Tensor of element type d, whatever t was
Cast(t, d) ==
    [kind |-> "Tensor", dtype |-> d, shape |-> t.shape,
     vals |-> [i \in 1..Len(t.vals) |-> CastElem(t.vals[i], d)]]

(***************************************************************************)
(* Shapes and sample tensors.                                              *)
(***************************************************************************)
RECURSIVE Prod(_)
Prod(s) == IF s = <<>> THEN 1 ELSE Head(s) * Prod(Tail(s))

RECURSIVE ShapesOfRank(_, _)
ShapesOfRank(n, dims) ==
    IF n = 0 THEN {<<>>}
    ELSE {Append(s, d) : s \in ShapesOfRank(n - 1, dims), d \in dims}

\* the tensor of the given kind, element type and shape whose elements count
\* up from base (with imaginary part 1 for the complex types)
Sample(k, d, s, base) ==
    [kind |-> k, dtype |-> d, shape |-> s,
     vals |-> [i \in 1..Prod(s) |->
                 CastElem(<<base + i - 1, IF d \in ComplexTypes THEN 1 ELSE 0>>, d)]]

Samples(kinds, dtypes, shapes, bases) ==
    {Sample(k, d, s, b) : k \in kinds, d \in dtypes, s \in shapes, b \in bases}

Box(t) == [kind |-> "TensorFlowBox", data |-> t]

Error(origin, exc) == [kind |-> "error", origin |-> origin, exc |-> exc]

IsError(v) == v.kind = "error"

(***************************************************************************)
(* The adapter.                                                            *)
(***************************************************************************)
\* qml.proc.wrap_output: the decorated function's result, boxed by the class;
\* an exception passes through
wrap_output(v) == IF IsError(v) THEN v ELSE Box(v)

\* qml.proc.TensorBox.unbox_list: the data of every box, other values as is
unbox_list(values) ==
    [i \in 1..Len(values) |->
        IF values[i].kind = "TensorFlowBox" THEN values[i].data ELSE values[i]]

\* TensorFlowBox.astensor: tf.convert_to_tensor(tensor), not boxed
astensor(tensor) == [tensor EXCEPT !.kind = "Tensor"]

\* a backend result the adapter hands on without looking into it
Term(fn, operands, params) ==
    [kind |-> "Tensor", fn |-> fn, operands |-> operands, params |-> params]

\* an exception raised inside a tensorflow call
BackendError == Error("backend", "tensorflow")

\* dtypes = {i.dtype for i in tensors}
DTypeSet(tensors) == {tensors[i].dtype : i \in 1..Len(tensors)}

\* a mutation: floating-point is tried before complex
CastTypeSetFloatFirst(dtypes) ==
    LET complex_type == dtypes \cap ComplexTypes
        float_type == dtypes \cap FloatTypes
        int_type == dtypes \cap IntTypes
    IN  IF float_type # {} THEN float_type
        ELSE IF complex_type # {} THEN complex_type
        ELSE int_type

\* cast_type = complex_type or float_type or int_type: an empty set is false
CastTypeSet(dtypes) ==
    LET complex_type == dtypes \cap ComplexTypes
        float_type == dtypes \cap FloatTypes
        int_type == dtypes \cap IntTypes
    IN  IF complex_type # {} THEN complex_type
        ELSE IF float_type # {} THEN float_type
        ELSE int_type

\* list(cast_type)[-1]: the last element of a set in the order the
\* interpreter iterates it, which the language leaves open: any element
LastOfSet(cast_type) == cast_type

\* a mutation: the test for a single element type is gone
CoerceWithoutEarlyReturn(tensors) ==
    LET dtypes == DTypeSet(tensors)
    IN  IF CastTypeSet(dtypes) = {} THEN {Error("adapter", "IndexError")}
        ELSE {[kind |-> "list",
               items |-> [i \in 1..Len(tensors) |-> Cast(tensors[i], cast_type)]] :
                  cast_type \in LastOfSet(CastTypeSet(dtypes))}

\* TensorFlowBox._coerce_types(tensors): every outcome the call can have;
\* indexing the empty list(cast_type) raises IndexError
_coerce_types(tensors) ==
    LET dtypes == DTypeSet(tensors)
    IN  IF Cardinality(dtypes) = 1 THEN {[kind |-> "list", items |-> tensors]}
        ELSE IF CastTypeSet(dtypes) = {} THEN {Error("adapter", "IndexError")}
        ELSE {[kind |-> "list",
               items |-> [i \in 1..Len(tensors) |-> Cast(tensors[i], cast_type)]] :
                  cast_type \in LastOfSet(CastTypeSet(dtypes))}

\* s without its element at position k (1-based)
RemoveAt(s, k) == SubSeq(s, 1, k - 1) \o SubSeq(s, k + 1, Len(s))

\* tf.tensordot(x, y, axes=[[ax], [ay]])
Tensordot(x, y, ax, ay) ==
    LET rx == Len(x.shape)
        ry == Len(y.shape)
        nx == IF ax < 0 THEN ax + rx ELSE ax
        ny == IF ay < 0 THEN ay + ry ELSE ay
    IN  IF ~(nx \in 0..(rx - 1) /\ ny \in 0..(ry - 1)) THEN BackendError
        ELSE IF x.shape[nx + 1] # y.shape[ny + 1] THEN BackendError
        ELSE [kind |-> "Tensor", dtype |-> x.dtype,
              shape |-> RemoveAt(x.shape, nx + 1) \o RemoveAt(y.shape, ny + 1),
              fn |-> "tf.tensordot", operands |-> <<x, y>>, axes |-> <<nx, ny>>]

\* x @ y on two matrices
Matmul(x, y) ==
    IF x.shape[2] # y.shape[1] THEN BackendError
    ELSE [kind |-> "Tensor", dtype |-> x.dtype, shape |-> <<x.shape[1], y.shape[2]>>,
          fn |-> "matmul", operands |-> <<x, y>>, axes |-> <<1, 0>>]

\* x * y on two scalars
Multiply(x, y) ==
    [kind |-> "Tensor", dtype |-> x.dtype, shape |-> <<>>,
     fn |-> "multiply", operands |-> <<x, y>>, axes |-> <<>>]

\* a mutation: the matrix-vector branch is gone
DotDispatchWithoutMatVec(x, y) ==
    LET xndim == Len(x.shape)
        yndim == Len(y.shape)
    IN  IF xndim = 0 /\ yndim = 0 THEN Multiply(x, y)
        ELSE IF xndim = 2 /\ yndim = 2 THEN Matmul(x, y)
        ELSE Tensordot(x, y, -1, -2)

\* the rank tests of dot, on the coerced operands
DotDispatch(x, y) ==
    LET xndim == Len(x.shape)
        yndim == Len(y.shape)
    IN  IF xndim = 0 /\ yndim = 0 THEN Multiply(x, y)
        ELSE IF xndim = 2 /\ yndim = 1 THEN Tensordot(x, y, -1, 0)
        ELSE IF xndim = 2 /\ yndim = 2 THEN Matmul(x, y)
        ELSE Tensordot(x, y, -1, -2)

\* TensorFlowBox.dot(x, y)
dot(x, y) ==
    LET unboxed == unbox_list(<<x, y>>)
        tensors == [i \in 1..2 |-> astensor(unboxed[i])]
    IN  {wrap_output(IF IsError(c) THEN c ELSE DotDispatch(c.items[1], c.items[2])) :
            c \in _coerce_types(tensors)}

RECURSIVE SumDims(_, _, _)
\* the sum of dimension k (1-based) of the first n tensors
SumDims(tensors, k, n) ==
    IF n = 0 THEN 0 ELSE SumDims(tensors, k, n - 1) + tensors[n].shape[k]

\* tf.concat(tensors, axis) on two or more tensors: one element type, rank at
\* least 1, one rank, axis within it, equal dimensions off the axis
Concat(tensors, axis) ==
    LET n == Len(tensors)
        s == tensors[1].shape
        r == Len(s)
        k == (IF axis < 0 THEN axis + r ELSE axis) + 1
    IN  IF Cardinality(DTypeSet(tensors)) # 1 THEN BackendError
        ELSE IF r = 0 \/ \E i \in 1..n : Len(tensors[i].shape) # r THEN BackendError
        ELSE IF k \notin 1..r THEN BackendError
        ELSE IF \E i \in 1..n : RemoveAt(tensors[i].shape, k) # RemoveAt(s, k)
             THEN BackendError
        ELSE LET total == SumDims(tensors, k, n)
                 inner == Prod(SubSeq(s, k + 1, r))
                 outer == Prod(SubSeq(s, 1, k - 1))
                 src(p) == CHOOSE j \in 1..n :
                              /\ SumDims(tensors, k, j - 1) <= p
                              /\ p < SumDims(tensors, k, j)
                 elem(f) ==
                     LET in == f % inner
                         p == (f \div inner) % total
                         o == f \div (inner * total)
                         j == src(p)
                         q == p - SumDims(tensors, k, j - 1)
                     IN  tensors[j].vals[(o * tensors[j].shape[k] + q) * inner + in + 1]
             IN  [kind |-> "Tensor", dtype |-> tensors[1].dtype,
                  shape |-> [s EXCEPT ![k] = total],
                  vals |-> [i \in 1..(outer * total * inner) |-> elem(i - 1)]]

\* TensorFlowBox.concatenate(values, axis): with axis None the comprehension
\* reads the local name tensors before any assignment to it
concatenate(values, axis) ==
    IF axis = <<>> THEN {wrap_output(Error("adapter", "UnboundLocalError"))}
    ELSE {wrap_output(Concat(unbox_list(values), axis[1]))}

\* tf.stack(tensors, axis): one shape, axis within rank + 1
Stack(tensors, axis) ==
    LET n == Len(tensors)
        s == tensors[1].shape
        r == Len(s)
        k == IF axis < 0 THEN axis + r + 1 ELSE axis
    IN  IF \E i \in 1..n : tensors[i].shape # s THEN BackendError
        ELSE IF k \notin 0..r THEN BackendError
        ELSE LET inner == Prod(SubSeq(s, k + 1, r))
                 elem(f) ==
                     LET in == f % inner
                         j == (f \div inner) % n
                         o == f \div (inner * n)
                     IN  tensors[j + 1].vals[o * inner + in + 1]
             IN  [kind |-> "Tensor", dtype |-> tensors[1].dtype,
                  shape |-> SubSeq(s, 1, k) \o <<n>> \o SubSeq(s, k + 1, r),
                  vals |-> [i \in 1..(n * Prod(s)) |-> elem(i - 1)]]

\* TensorFlowBox.stack(values, axis)
stack(values, axis) ==
    {wrap_output(IF IsError(c) THEN c ELSE Stack(c.items, axis[1])) :
        c \in _coerce_types(unbox_list(values))}

\* abs = wrap_output(lambda self: tf.abs(self.data))
abs(self) == wrap_output(Term("tf.abs", <<self.data>>, <<>>))

\* angle = wrap_output(lambda self: tf.math.angle(self.data))
angle(self) == wrap_output(Term("tf.math.angle", <<self.data>>, <<>>))

\* arcsin = wrap_output(lambda self: tf.math.asin(self.data)); the backend
\* has no arcsine of an integer or boolean tensor
arcsin(self) ==
    wrap_output(IF self.data.dtype \in FloatTypes \cup ComplexTypes
                THEN Term("tf.math.asin", <<self.data>>, <<>>)
                ELSE BackendError)

\* cast = wrap_output(lambda self, dtype: tf.cast(self.data, dtype))
cast(self, dtype) == wrap_output(Cast(self.data, dtype))

\* tf.expand_dims(t, axis=axis): axis within rank + 1
ExpandDims(t, axis) ==
    LET r == Len(t.shape)
        k == IF axis < 0 THEN axis + r + 1 ELSE axis
    IN  IF k \notin 0..r THEN BackendError
        ELSE [kind |-> "Tensor", dtype |-> t.dtype,
              shape |-> SubSeq(t.shape, 1, k) \o <<1>> \o SubSeq(t.shape, k + 1, r),
              vals |-> t.vals]

\* expand_dims = wrap_output(lambda self, axis: tf.expand_dims(self.data, axis=axis))
expand_dims(self, axis) == wrap_output(ExpandDims(self.data, axis[1]))

\* ones_like = wrap_output(lambda self: tf.ones_like(self.data))
ones_like(self) ==
    wrap_output([kind |-> "Tensor", dtype |-> self.data.dtype, shape |-> self.data.shape,
                 vals |-> [i \in 1..Len(self.data.vals) |-> <<1, 0>>]])

\* sqrt = wrap_output(lambda self: tf.sqrt(self.data)); the backend has no
\* square root of an integer or boolean tensor
sqrt(self) ==
    wrap_output(IF self.data.dtype \in FloatTypes \cup ComplexTypes
                THEN Term("tf.sqrt", <<self.data>>, <<>>)
                ELSE BackendError)

\* sum = wrap_output(lambda self, axis, keepdims: tf.reduce_sum(...)); an
\* integer axis lies within the rank
sum(self, axis, keepdims) ==
    LET r == Len(self.data.shape)
    IN  wrap_output(IF axis # <<>> /\ axis[1] \notin (-r)..(r - 1) THEN BackendError
                    ELSE Term("tf.reduce_sum", <<self.data>>, <<axis, <<keepdims>>>>))

\* T = wrap_output(lambda self: tf.transpose(self.data))
T(self) == wrap_output(Term("tf.transpose", <<self.data>>, <<>>))

\* take = wrap_output(lambda self, indices, axis=None: tf.gather(...))
take(self, indices, axis) ==
    wrap_output(Term("tf.gather", <<self.data>>, <<indices, axis>>))

\* TensorBox.__len__: len(self.data); a scalar tensor has no length
TensorBox_len(self) ==
    IF self.data.shape = <<>> THEN Error("backend", "TypeError")
    ELSE [kind |-> "int", value |-> self.data.shape[1]]

\* TensorFlowBox.__len__: a tf.Variable is converted to a tensor first
__len__(self) ==
    IF self.data.kind = "Variable"
    THEN LET t == astensor(self.data)
         IN  IF t.shape = <<>> THEN Error("backend", "TypeError")
             ELSE [kind |-> "int", value |-> t.shape[1]]
    ELSE TensorBox_len(self)

\* TensorFlowBox.interface
interface(self) == [kind |-> "str", value |-> "tf"]

\* TensorFlowBox.numpy: self.data.numpy(), a host array
numpy(self) ==
    [kind |-> "ndarray", dtype |-> self.data.dtype, shape |-> self.data.shape,
     vals |-> self.data.vals]

\* TensorFlowBox.requires_grad: should_record_backprop([astensor(data)]);
\* recording is what the active gradient tapes answer for the tensor
requires_grad(self, recording) == [kind |-> "bool", value |-> recording]

\* TensorFlowBox.shape: tuple(self.data.shape)
shape(self) == [kind |-> "tuple", items |-> self.data.shape]

\* a mutation: the decorator is gone
WhereNotWrapped(condition, x, y) ==
    Term("tf.where", <<astensor(condition)>> \o unbox_list(<<x, y>>), <<>>)

\* TensorFlowBox.where(condition, x, y)
where(condition, x, y) ==
    wrap_output(Term("tf.where", <<astensor(condition)>> \o unbox_list(<<x, y>>), <<>>))

(***************************************************************************)
(* Inputs.                                                                 *)
(***************************************************************************)
BackendKinds == {"Tensor", "Variable"}

\* the forms an argument takes: a raw tf.Tensor, or a box around a tf.Variable
Forms(dtypes, shapes, bases) ==
    Samples({"Tensor"}, dtypes, shapes, bases)
        \cup {Box(t) : t \in Samples({"Variable"}, dtypes, shapes, bases)}

CoerceTensors == Samples({"Tensor"}, DTypes, {<<2>>}, SampleBases)

CoerceLists == UNION {[1..n -> CoerceTensors] : n \in 0..MaxLen}

DotShapes == UNION {ShapesOfRank(n, DotDims) : n \in 0..MaxRank}

DotOperands == Forms(DotDTypes, DotShapes, {1})

ListOperands == Forms(DTypes, ListShapes, SampleBases)

SelfTensors == Samples(BackendKinds, DTypes, SelfShapes, {1})

SelfBoxes == {Box(t) : t \in SelfTensors}

WhereConditions == Samples({"Tensor"}, {"bool"}, {<<2>>}, {0, 1})

WhereOperands == Forms({"int32", "float64"}, {<<2>>}, {1})

(***************************************************************************)
(* Actions: one call each.                                                 *)
(***************************************************************************)
Idle == [op |-> "none"]

NoValue == [kind |-> "none"]

Init ==
    /\ pc = "idle"
    /\ call = Idle
    /\ ret = NoValue

Call_abs ==
    /\ pc = "idle"
    /\ \E self \in SelfBoxes :
        /\ call' = [op |-> "abs", self |-> self]
        /\ ret' = abs(self)
        /\ pc' = "returned"

Call_angle ==
    /\ pc = "idle"
    /\ \E self \in SelfBoxes :
        /\ call' = [op |-> "angle", self |-> self]
        /\ ret' = angle(self)
        /\ pc' = "returned"

Call_arcsin ==
    /\ pc = "idle"
    /\ \E self \in SelfBoxes :
        /\ call' = [op |-> "arcsin", self |-> self]
        /\ ret' = arcsin(self)
        /\ pc' = "returned"

Call_cast ==
    /\ pc = "idle"
    /\ \E self \in SelfBoxes, dtype \in DTypes :
        /\ call' = [op |-> "cast", self |-> self, dtype |-> dtype]
        /\ ret' = cast(self, dtype)
        /\ pc' = "returned"

Call_expand_dims ==
    /\ pc = "idle"
    /\ \E self \in SelfBoxes, axis \in Axes :
        /\ call' = [op |-> "expand_dims", self |-> self, axis |-> axis]
        /\ ret' = expand_dims(self, axis)
        /\ pc' = "returned"

Call_ones_like ==
    /\ pc = "idle"
    /\ \E self \in SelfBoxes :
        /\ call' = [op |-> "ones_like", self |-> self]
        /\ ret' = ones_like(self)
        /\ pc' = "returned"

Call_sqrt ==
    /\ pc = "idle"
    /\ \E self \in SelfBoxes :
        /\ call' = [op |-> "sqrt", self |-> self]
        /\ ret' = sqrt(self)
        /\ pc' = "returned"

Call_sum ==
    /\ pc = "idle"
    /\ \E self \in SelfBoxes, axis \in Axes \cup {<<>>}, keepdims \in BOOLEAN :
        /\ call' = [op |-> "sum", self |-> self, axis |-> axis, keepdims |-> keepdims]
        /\ ret' = sum(self, axis, keepdims)
        /\ pc' = "returned"

Call_T ==
    /\ pc = "idle"
    /\ \E self \in SelfBoxes :
        /\ call' = [op |-> "T", self |-> self]
        /\ ret' = T(self)
        /\ pc' = "returned"

Call_take ==
    /\ pc = "idle"
    /\ \E self \in SelfBoxes, indices \in {<<0>>, <<1, 0>>}, axis \in Axes \cup {<<>>} :
        /\ call' = [op |-> "take", self |-> self, indices |-> indices, axis |-> axis]
        /\ ret' = take(self, indices, axis)
        /\ pc' = "returned"

Call_len ==
    /\ pc = "idle"
    /\ \E self \in SelfBoxes :
        /\ call' = [op |-> "__len__", self |-> self]
        /\ ret' = __len__(self)
        /\ pc' = "returned"

Call_astensor ==
    /\ pc = "idle"
    /\ \E tensor \in SelfTensors :
        /\ call' = [op |-> "astensor", tensor |-> tensor]
        /\ ret' = astensor(tensor)
        /\ pc' = "returned"

Call_coerce_types ==
    /\ pc = "idle"
    /\ \E tensors \in CoerceLists :
        /\ call' = [op |-> "_coerce_types", tensors |-> tensors]
        /\ ret' \in _coerce_types(tensors)
        /\ pc' = "returned"

Call_concatenate ==
    /\ pc = "idle"
    /\ \E a \in ListOperands, b \in ListOperands, axis \in Axes \cup {<<>>} :
        /\ call' = [op |-> "concatenate", values |-> <<a, b>>, axis |-> axis]
        /\ ret' \in concatenate(<<a, b>>, axis)
        /\ pc' = "returned"

Call_dot ==
    /\ pc = "idle"
    /\ \E x \in DotOperands, y \in DotOperands :
        /\ call' = [op |-> "dot", x |-> x, y |-> y]
        /\ ret' \in dot(x, y)
        /\ pc' = "returned"

Call_interface ==
    /\ pc = "idle"
    /\ \E self \in SelfBoxes :
        /\ call' = [op |-> "interface", self |-> self]
        /\ ret' = interface(self)
        /\ pc' = "returned"

Call_numpy ==
    /\ pc = "idle"
    /\ \E self \in SelfBoxes :
        /\ call' = [op |-> "numpy", self |-> self]
        /\ ret' = numpy(self)
        /\ pc' = "returned"

Call_requires_grad ==
    /\ pc = "idle"
    /\ \E self \in SelfBoxes, recording \in BOOLEAN :
        /\ call' = [op |-> "requires_grad", self |-> self]
        /\ ret' = requires_grad(self, recording)
        /\ pc' = "returned"

Call_shape ==
    /\ pc = "idle"
    /\ \E self \in SelfBoxes :
        /\ call' = [op |-> "shape", self |-> self]
        /\ ret' = shape(self)
        /\ pc' = "returned"

Call_stack ==
    /\ pc = "idle"
    /\ \E a \in ListOperands, b \in ListOperands, axis \in Axes :
        /\ call' = [op |-> "stack", values |-> <<a, b>>, axis |-> axis]
        /\ ret' \in stack(<<a, b>>, axis)
        /\ pc' = "returned"

Call_where ==
    /\ pc = "idle"
    /\ \E condition \in WhereConditions, x \in WhereOperands, y \in WhereOperands :
        /\ call' = [op |-> "where", condition |-> condition, x |-> x, y |-> y]
        /\ ret' = where(condition, x, y)
        /\ pc' = "returned"

\* the caller drops the result and is free to make the next call
Discard ==
    /\ pc = "returned"
    /\ pc' = "idle"
    /\ call' = Idle
    /\ ret' = NoValue

Next ==
    \/ Call_abs
    \/ Call_angle
    \/ Call_arcsin
    \/ Call_cast
    \/ Call_expand_dims
    \/ Call_ones_like
    \/ Call_sqrt
    \/ Call_sum
    \/ Call_T
    \/ Call_take
    \/ Call_len
    \/ Call_astensor
    \/ Call_coerce_types
    \/ Call_concatenate
    \/ Call_dot
    \/ Call_interface
    \/ Call_numpy
    \/ Call_requires_grad
    \/ Call_shape
    \/ Call_stack
    \/ Call_where
    \/ Discard

Spec == Init /\ [][Next]_vars

(***************************************************************************)
(* Properties.                                                             *)
(***************************************************************************)
Recognised == ComplexTypes \cup FloatTypes \cup IntTypes

\* the category that wins among the element types ds: complex over
\* floating-point over integer
WinningCategory(ds) ==
    IF \E d \in ds : d \in ComplexTypes THEN ComplexTypes
    ELSE IF \E d \in ds : d \in FloatTypes THEN FloatTypes
    ELSE IntTypes

\* the highest-ordered type of ds
Highest(ds) == CHOOSE d \in ds : \A e \in ds : Bits(e) <= Bits(d)

CoerceReturned == pc = "returned" /\ call.op = "_coerce_types"

\* C1: a non-empty list of tensors of recognised element types, not all
\* equal, comes back from _coerce_types as a list of the same length with one
\* element type, of the category that wins: complex if any input is complex,
\* else floating-point if any is floating-point, else integer.
C1_CoerceUniformInWinningCategory ==
    (/\ CoerceReturned
     /\ Len(call.tensors) > 0
     /\ DTypeSet(call.tensors) \subseteq Recognised
     /\ Cardinality(DTypeSet(call.tensors)) > 1)
    => /\ ret.kind = "list"
       /\ Len(ret.items) = Len(call.tensors)
       /\ \E d \in WinningCategory(DTypeSet(call.tensors)) :
             \A i \in 1..Len(ret.items) : ret.items[i].dtype = d

\* one integer and one floating-point tensor, both cast to the floating-point type
C1_Witness ==
    /\ CoerceReturned
    /\ Len(call.tensors) = 2
    /\ call.tensors[1].dtype \in IntTypes
    /\ call.tensors[2].dtype \in FloatTypes
    /\ ret.kind = "list"
    /\ \A i \in 1..2 : ret.items[i].dtype = call.tensors[2].dtype

\* C9: with more than one element type among the inputs, _coerce_types casts
\* to the highest-ordered type of the winning category present among them.
C9_TargetIsHighestOfCategory ==
    (/\ CoerceReturned
     /\ Cardinality(DTypeSet(call.tensors)) > 1
     /\ ret.kind = "list")
    => \A i \in 1..Len(ret.items) :
          ret.items[i].dtype =
             Highest(DTypeSet(call.tensors) \cap WinningCategory(DTypeSet(call.tensors)))

\* C10: a list of tensors that share one element type, whatever it is, comes
\* back from _coerce_types as it went in: same tensors, same order, no cast.
C10_CoerceSingleTypeIsIdentity ==
    (CoerceReturned /\ Cardinality(DTypeSet(call.tensors)) = 1)
    => (ret.kind = "list" /\ ret.items = call.tensors)

\* two boolean tensors, outside the three categories, returned as they are
C10_Witness ==
    /\ CoerceReturned
    /\ Len(call.tensors) = 2
    /\ DTypeSet(call.tensors) = {"bool"}
    /\ ret.kind = "list"
    /\ ret.items = call.tensors

DotReturned == pc = "returned" /\ call.op = "dot"

\* the tensor an argument stands for: the data of a box, or the value itself
DataOf(v) == IF v.kind = "TensorFlowBox" THEN v.data ELSE v

\* the element types two operands of types ds can both be cast to
CommonTypes(ds) ==
    IF Cardinality(ds) = 1 THEN ds ELSE ds \cap WinningCategory(ds)

\* t is the operand v unboxed, converted to a backend tensor and cast to d
IsCoercedFrom(t, v, d) ==
    /\ t.kind = "Tensor"
    /\ t.dtype = d
    /\ t.shape = DataOf(v).shape
    /\ t.vals = [i \in 1..Len(DataOf(v).vals) |-> CastElem(DataOf(v).vals[i], d)]

\* ret is the boxed contraction, over the given axes and of the given shape,
\* of the two operands of the call after unboxing, conversion and coercion
DotIs(fns, axes, shp) ==
    /\ ret.kind = "TensorFlowBox"
    /\ ret.data.kind = "Tensor"
    /\ ret.data.fn \in fns
    /\ ret.data.axes = axes
    /\ ret.data.shape = shp
    /\ ret.data.dtype \in CommonTypes({DataOf(call.x).dtype, DataOf(call.y).dtype})
    /\ IsCoercedFrom(ret.data.operands[1], call.x, ret.data.dtype)
    /\ IsCoercedFrom(ret.data.operands[2], call.y, ret.data.dtype)

\* C3: on operands with a common type to coerce to and matching dimensions,
\* dot of two rank-0 operands is their elementwise product, of a rank-2 x and
\* a rank-1 y the contraction of x's last axis with y's only axis, of two
\* rank-2 operands the matrix product; the operands of the rule are the
\* arguments unboxed, converted to backend tensors and coerced to one type.
C3_DotRankRules ==
    DotReturned =>
        LET xs == DataOf(call.x).shape
            ys == DataOf(call.y).shape
            coercible == CommonTypes({DataOf(call.x).dtype, DataOf(call.y).dtype}) # {}
        IN  /\ (Len(xs) = 0 /\ Len(ys) = 0 /\ coercible)
                => DotIs({"multiply"}, <<>>, <<>>)
            /\ (Len(xs) = 2 /\ Len(ys) = 1 /\ coercible /\ xs[2] = ys[1])
                => DotIs({"tf.tensordot"}, <<1, 0>>, <<xs[1]>>)
            /\ (Len(xs) = 2 /\ Len(ys) = 2 /\ coercible /\ xs[2] = ys[1])
                => DotIs({"matmul"}, <<1, 0>>, <<xs[1], ys[2]>>)

\* a boxed integer matrix variable times a raw floating-point vector
C3_Witness ==
    /\ DotReturned
    /\ call.x.kind = "TensorFlowBox"
    /\ call.x.data.kind = "Variable"
    /\ call.x.data.dtype = "int32"
    /\ call.x.data.shape = <<3, 2>>
    /\ call.y.kind = "Tensor"
    /\ call.y.dtype = "float64"
    /\ call.y.shape = <<2>>
    /\ DotIs({"tf.tensordot"}, <<1, 0>>, <<3>>)

\* the reference array library's dot accepts two shapes when either is a
\* scalar or the last axis of x is as long as the axis of y it meets
NumpyDotAxes(xs, ys) ==
    IF Len(xs) = 0 \/ Len(ys) = 0 THEN <<>>
    ELSE IF Len(ys) = 1 THEN <<Len(xs) - 1, 0>>
    ELSE <<Len(xs) - 1, Len(ys) - 2>>

NumpyDotAccepts(xs, ys) ==
    \/ Len(xs) = 0
    \/ Len(ys) = 0
    \/ xs[NumpyDotAxes(xs, ys)[1] + 1] = ys[NumpyDotAxes(xs, ys)[2] + 1]

NumpyDotShape(xs, ys) ==
    IF Len(xs) = 0 THEN ys
    ELSE IF Len(ys) = 0 THEN xs
    ELSE RemoveAt(xs, NumpyDotAxes(xs, ys)[1] + 1) \o RemoveAt(ys, NumpyDotAxes(xs, ys)[2] + 1)

\* C2: for operands of every pair of ranks whose shapes the reference dot
\* accepts (and whose element types are recognised), dot returns a result
\* that contracts the axes the reference dot contracts and has its shape.
C2_DotMirrorsReference ==
    (/\ DotReturned
     /\ {DataOf(call.x).dtype, DataOf(call.y).dtype} \subseteq Recognised
     /\ NumpyDotAccepts(DataOf(call.x).shape, DataOf(call.y).shape))
    => /\ ret.kind = "TensorFlowBox"
       /\ ret.data.axes = NumpyDotAxes(DataOf(call.x).shape, DataOf(call.y).shape)
       /\ ret.data.shape = NumpyDotShape(DataOf(call.x).shape, DataOf(call.y).shape)

ConcatenateReturned == pc = "returned" /\ call.op = "concatenate"

\* C4: concatenate(values, axis=None) succeeds and returns a rank-1 tensor
\* whose length is the sum of the element counts of all inputs.
C4_ConcatenateNoAxisFlattens ==
    (ConcatenateReturned /\ call.axis = <<>>)
    => /\ ret.kind = "TensorFlowBox"
       /\ Len(ret.data.shape) = 1
       /\ ret.data.shape[1] =
             Prod(DataOf(call.values[1]).shape) + Prod(DataOf(call.values[2]).shape)

\* C6: for two inputs, of equal element types or not, whose shapes agree off
\* axis 0, concatenate([a, b], axis=0) is as long along axis 0 as a and b are
\* together.
C6_ConcatenateAxis0Length ==
    LET a == DataOf(call.values[1])
        b == DataOf(call.values[2])
    IN  (/\ ConcatenateReturned
         /\ call.axis = <<0>>
         /\ Len(a.shape) >= 1
         /\ Len(b.shape) >= 1
         /\ Tail(a.shape) = Tail(b.shape))
        => /\ ret.kind = "TensorFlowBox"
           /\ ret.data.shape[1] = a.shape[1] + b.shape[1]

StackReturned == pc = "returned" /\ call.op = "stack"

\* the elements of t at position p of axis 0
AtAxis0(t, p) ==
    LET inner == Prod(Tail(t.shape))
    IN  SubSeq(t.vals, p * inner + 1, (p + 1) * inner)

\* C5: for two inputs of equal shape, of equal element types or not,
\* stack([a, b], axis=0) holds a at position 0 of axis 0 and b at position 1.
C5_StackRoundTrip ==
    LET a == DataOf(call.values[1])
        b == DataOf(call.values[2])
    IN  (StackReturned /\ call.axis = <<0>> /\ a.shape = b.shape)
        => /\ ret.kind = "TensorFlowBox"
           /\ Tail(ret.data.shape) = a.shape
           /\ AtAxis0(ret.data, 0) = a.vals
           /\ AtAxis0(ret.data, 1) = b.vals

BoxedOps ==
    {"abs", "angle", "arcsin", "cast", "expand_dims", "ones_like", "sqrt", "sum",
     "T", "take", "concatenate", "dot", "stack", "where"}

\* C7, as the claim states it: every public operation, astensor among them,
\* returns a boxed value.
C7_EveryOperationReturnsABox ==
    (pc = "returned" /\ ~IsError(ret) /\ call.op \in BoxedOps \cup {"astensor"})
    => ret.kind = "TensorFlowBox"

\* C7, amended: every public operation but astensor, when it returns,
\* returns a box whose data is a backend tensor; astensor returns the backend
\* tensor itself, not boxed; numpy returns a host array, shape a tuple,
\* requires_grad a boolean and interface a string.
C7_ReturnKinds ==
    (pc = "returned" /\ ~IsError(ret))
    => /\ call.op \in BoxedOps => (ret.kind = "TensorFlowBox" /\ ret.data.kind = "Tensor")
       /\ call.op = "astensor" => ret.kind = "Tensor"
       /\ call.op = "numpy" => ret.kind = "ndarray"
       /\ call.op = "shape" => ret.kind = "tuple"
       /\ call.op = "requires_grad" => ret.kind = "bool"
       /\ call.op = "interface" => ret.kind = "str"

\* astensor has converted a variable and returned the tensor, not a box
C7_Witness ==
    /\ pc = "returned"
    /\ call.op = "astensor"
    /\ call.tensor.kind = "Variable"
    /\ ret.kind = "Tensor"

PublicOps ==
    BoxedOps \cup {"astensor", "numpy", "shape", "requires_grad", "interface"}

\* C8: every failure of a public operation is an error raised by a backend
\* operation; none originates in the adapter's own code.
C8_FailuresComeFromBackend ==
    (pc = "returned" /\ call.op \in PublicOps /\ IsError(ret)) => ret.origin = "backend"

=============================================================================
